---- MODULE Spec2Model ----
(***************************************************************************)
(* Alert-card lifecycle manager of alert_service/api.py: the card          *)
(* registry (cards, lp_to_card) guarded by card_lock, the monitoring loop, *)
(* the background dispatch tasks (initial margin check, recheck) and the   *)
(* human operations (feedback, ignore, override).                          *)
(***************************************************************************)
EXTENDS Integers, Sequences, FiniteSets, Bags, TLC

(***************************************************************************)
(* Program constants.                                                      *)
(***************************************************************************)
MONITORING_INTERVAL == 60
ALERT_TRIGGER_THRESHOLD == 30
ALERT_RESOLVE_THRESHOLD == 25
NOTIFICATION_INITIAL_WINDOW == 300
NOTIFICATION_INITIAL_FREQUENCY == 60
NOTIFICATION_COOLDOWN_FREQUENCY == 900

(***************************************************************************)
(* Bounds of the model.                                                    *)
(***************************************************************************)
MaxTicks == 3
MaxCards == 2
MaxHist == 5
MaxTasks == 2
MaxCadenceTicks == 36
MaxDeskHist == 7

\* The LP accounts, in the order the feed lists them: a batch holds at most
\* one record per LP.
LPOrder == << "LP1", "LP2" >>
LPs == { LPOrder[i] : i \in 1 .. Len(LPOrder) }
Margins == {25, 27, 30}

\* One record of the feed: the LP, its "Margin Utilization %", and for the
\* remaining fields of the account (equity, balance, ...) the instant of the
\* fetch that returned them.
Account(lp_name, margin, fetched) ==
    [LP |-> lp_name, margin |-> margin, fetched |-> fetched]

\* The two replayed feeds of LP1: the hysteresis sequence and the persistent
\* breach.
Hysteresis == << 28, 32, 27, 24 >>
Persistence == << 35, 36, 34 >>
Scripts == { Hysteresis, Persistence }

NoCard == 0
NoTime == -1
NoThread == "none"

NEW_STATUS == "new"
AWAITING_HITL == "awaiting_hitl"
PENDING_RECHECK == "pending_recheck"
IGNORED == "ignored"
COMPLETED == "completed"
OVERRIDDEN == "overridden"

AlertStatus == {NEW_STATUS, AWAITING_HITL, PENDING_RECHECK, IGNORED, COMPLETED, OVERRIDDEN}
Terminal == {COMPLETED, OVERRIDDEN}

\* What _call_margin_endpoint returns: the engine's answer (with its
\* thread_id, status possibly "error"), or the client-side error dict.
Responses ==
    { [status |-> "ok", thread_id |-> "t1", error |-> "none"],
      [status |-> "error", thread_id |-> "t1", error |-> "engine"],
      [status |-> "error", thread_id |-> NoThread, error |-> "client"] }

VARIABLES
    clock,       \* datetime.utcnow(), in seconds
    cards,       \* self.cards: sequence of AlertCard, the card id is the index
    lp_to_card,  \* self.lp_to_card: LP -> card id, NoCard when the key is absent
    card_lock,   \* self.card_lock: "free" or its holder
    tasks,       \* bag of the background tasks created by _schedule_task, and
                 \* of the request handlers that are between two of their
                 \* statements
    mon,         \* the monitoring loop: where it is, the now of its tick, the
                 \* place in LPOrder of the next record of its batch, the
                 \* end of its sleep, whether the fetch of its tick has
                 \* failed, and what its last finished tick has logged
    feed,        \* the data feed: free, or replaying the rest of a script with
                 \* no operator at the human API
    cap,         \* not a field of the program: the number of history entries
                 \* the registry may hold in this run, fixed by Init
    is_running   \* self.is_running

vars == << clock, cards, lp_to_card, card_lock, tasks, mon, feed, cap, is_running >>

(***************************************************************************)
(* AlertCard and its methods.                                              *)
(***************************************************************************)
\* An entry of card.history, without its timestamp and message. Of the
\* metadata: the margin of a created, resolved, ignore_expired or
\* recheck_pending entry, the deadline of an ignored entry, the thread of a
\* margin_check or recheck entry, the error of a failure, the interval and
\* count of a notification.
Event(actor, action, metadata) ==
    [actor |-> actor, action |-> action, metadata |-> metadata]

NoMetadata == [empty |-> TRUE]

\* the entry is appended and the card's update time is lost
AddHistory_Unstamped(card, actor, action, metadata) ==
    [card EXCEPT !.history = Append(@, Event(actor, action, metadata)),
                 !.updated_at = NoTime]

\* the new entry replaces the journal instead of extending it
AddHistory_Rewrites(card, actor, action, metadata) ==
    [card EXCEPT !.history = << Event(actor, action, metadata) >>,
                 !.updated_at = clock]

AddHistory(card, actor, action, metadata) ==
    [card EXCEPT !.history = Append(@, Event(actor, action, metadata)),
                 !.updated_at = clock]

SetStatus(card, status) ==
    [card EXCEPT !.status = status, !.updated_at = clock]

NewCard(lp_name, margin_level, account, now) ==
    [ lp_name |-> lp_name,
      created_at |-> now,
      updated_at |-> now,
      status |-> AWAITING_HITL,
      margin_level |-> margin_level,
      last_margin_snapshot |-> account,
      reports |-> << >>,
      history |-> << >>,
      thread_id |-> NoThread,
      ignore_until |-> NoTime,
      last_notified_at |-> NoTime,
      notifications_sent |-> 0 ]

CardIds == 1 .. Len(cards)

GetCardForLp(lp_name) == lp_to_card[lp_name]

RECURSIVE Journal(_)
Journal(n) == IF n = 0 THEN 0 ELSE Len(cards[n].history) + Journal(n - 1)

\* room for n more history entries in the registry
HasRoom(n) == Journal(Len(cards)) + n <= cap

(***************************************************************************)
(* Background tasks.                                                       *)
(***************************************************************************)
\* The first critical section of _trigger_margin_check only reads the card's
\* lp_name (cards are never removed), so the task starts at its request.
CheckTask(card_id, margin_level) ==
    [kind |-> "margin_check", card |-> card_id, pc |-> "call",
     margin_level |-> margin_level, thread_id |-> NoThread]

RecheckTask(card_id) ==
    [kind |-> "margin_recheck", card |-> card_id, pc |-> "start",
     margin_level |-> 0, thread_id |-> NoThread]

ScheduleTask(bag, task) == bag (+) SetToBag({task})

RemoveTask(bag, task) == bag (-) SetToBag({task})

(***************************************************************************)
(* MonitoringService._process_accounts, one record of the batch.           *)
(***************************************************************************)
IsBreach(margin_level) == margin_level >= ALERT_TRIGGER_THRESHOLD

\* no hysteresis band: recovered as soon as the margin is under the trigger
IsRecovered_NoBand(margin_level) == margin_level < ALERT_TRIGGER_THRESHOLD

IsRecovered(margin_level) == margin_level <= ALERT_RESOLVE_THRESHOLD

IgnoreActive(card, now) ==
    card.status = IGNORED /\ card.ignore_until # NoTime /\ card.ignore_until > now

IgnoreExpired(card, now) ==
    card.status = IGNORED /\ (card.ignore_until = NoTime \/ card.ignore_until <= now)

ActiveStatuses == {AWAITING_HITL, PENDING_RECHECK, IGNORED}

\* the snapshot is stored, the margin level is not
UpdateSnapshot_StaleMargin(card, account) ==
    [card EXCEPT !.last_margin_snapshot = account]

\* the snapshot and the margin are stored, and the card is marked as touched
UpdateSnapshot_Touched(card, account) ==
    [card EXCEPT !.margin_level = account.margin,
                 !.last_margin_snapshot = account,
                 !.updated_at = clock]

UpdateSnapshot(card, account) ==
    [card EXCEPT !.margin_level = account.margin,
                 !.last_margin_snapshot = account]

\* the deadline of the ignore is left on the card
ExpireIgnore_KeepsDeadline(card, margin_level) ==
    AddHistory(SetStatus(card, AWAITING_HITL),
               "system", "ignore_expired", [margin_level |-> margin_level])

ExpireIgnore(card, margin_level) ==
    AddHistory(SetStatus([card EXCEPT !.ignore_until = NoTime], AWAITING_HITL),
               "system", "ignore_expired", [margin_level |-> margin_level])

\* _resolve_card, the card part
ResolveCard(card, margin_level) ==
    AddHistory(
        [SetStatus([card EXCEPT !.margin_level = margin_level,
                                !.last_margin_snapshot =
                                    [@ EXCEPT !.margin = margin_level]],
                   COMPLETED)
            EXCEPT !.ignore_until = NoTime],
        "system", "resolved", [margin_level |-> margin_level])

\* the LP's key is left in the index
ResolveIndex_Kept(index, lp_name) == index

\* _resolve_card, the index part: the LP's key is deleted
ResolveIndex(index, lp_name) == [index EXCEPT ![lp_name] = NoCard]

\* _create_alert_card
CreateAlertCard(lp_name, margin_level, account, now) ==
    /\ Len(cards) < MaxCards
    /\ HasRoom(1)
    /\ cards' = Append(cards,
                       AddHistory(NewCard(lp_name, margin_level, account, now),
                                  "system", "created",
                                  [margin_level |-> margin_level,
                                   threshold |-> ALERT_TRIGGER_THRESHOLD]))
    /\ lp_to_card' = [lp_to_card EXCEPT ![lp_name] = Len(cards) + 1]
    /\ tasks' = ScheduleTask(tasks, CheckTask(Len(cards) + 1, margin_level))

RefreshActive(card, account, now) ==
    IF IgnoreExpired(card, now)
    THEN ExpireIgnore(UpdateSnapshot(card, account), account.margin)
    ELSE UpdateSnapshot(card, account)

ProcessAccount(account) ==
    LET lp_name == account.LP
        margin_level == account.margin
        c == GetCardForLp(lp_name)
        now == mon.now
    IN  IF IsBreach(margin_level)
        THEN IF c # NoCard /\ IgnoreActive(cards[c], now)
             THEN /\ cards' = [cards EXCEPT ![c] = UpdateSnapshot(@, account)]
                  /\ UNCHANGED << lp_to_card, tasks >>
             ELSE IF c # NoCard /\ cards[c].status \in ActiveStatuses
             THEN /\ IgnoreExpired(cards[c], now) => HasRoom(1)
                  /\ cards' = [cards EXCEPT ![c] = RefreshActive(@, account, now)]
                  /\ UNCHANGED << lp_to_card, tasks >>
             ELSE CreateAlertCard(lp_name, margin_level, account, now)
        ELSE IF c # NoCard /\ cards[c].status \notin Terminal
             THEN IF IsRecovered(margin_level)
                  THEN /\ HasRoom(1)
                       /\ cards' = [cards EXCEPT ![c] = ResolveCard(@, margin_level)]
                       /\ lp_to_card' = ResolveIndex(lp_to_card, cards[c].lp_name)
                       /\ UNCHANGED tasks
                  ELSE /\ cards' = [cards EXCEPT ![c] = UpdateSnapshot(@, account)]
                       /\ UNCHANGED << lp_to_card, tasks >>
             ELSE UNCHANGED << cards, lp_to_card, tasks >>

(***************************************************************************)
(* MonitoringService._process_notifications, one card of the sweep.        *)
(***************************************************************************)

\* the phase changes already at the end of the initial window
NotificationInterval_ClosedWindow(card, now) ==
    IF now - card.created_at >= NOTIFICATION_INITIAL_WINDOW
    THEN NOTIFICATION_COOLDOWN_FREQUENCY
    ELSE NOTIFICATION_INITIAL_FREQUENCY

NotificationInterval(card, now) ==
    IF now - card.created_at > NOTIFICATION_INITIAL_WINDOW
    THEN NOTIFICATION_COOLDOWN_FREQUENCY
    ELSE NOTIFICATION_INITIAL_FREQUENCY

\* the deadline of an ignore is not looked at
ShouldNotify_DeadlineBlind(card, now) ==
    /\ card.status = AWAITING_HITL
    /\ \/ card.last_notified_at = NoTime
       \/ now - card.last_notified_at >= NotificationInterval(card, now)

\* a reminder needs more than the interval since the last one
ShouldNotify_StrictInterval(card, now) ==
    /\ card.status = AWAITING_HITL
    /\ ~(card.ignore_until # NoTime /\ card.ignore_until > now)
    /\ \/ card.last_notified_at = NoTime
       \/ now - card.last_notified_at > NotificationInterval(card, now)

ShouldNotify(card, now) ==
    /\ card.status = AWAITING_HITL
    /\ ~(card.ignore_until # NoTime /\ card.ignore_until > now)
    /\ \/ card.last_notified_at = NoTime
       \/ now - card.last_notified_at >= NotificationInterval(card, now)

\* the reminder is journaled but not counted
Notify_Uncounted(card, now) ==
    IF ShouldNotify(card, now)
    THEN AddHistory([card EXCEPT !.last_notified_at = now],
                    "system", "notification",
                    [notification_interval |-> NotificationInterval(card, now),
                     notifications_sent |-> card.notifications_sent + 1])
    ELSE card

Notify(card, now) ==
    IF ShouldNotify(card, now)
    THEN AddHistory([card EXCEPT !.last_notified_at = now,
                                 !.notifications_sent = @ + 1],
                    "system", "notification",
                    [notification_interval |-> NotificationInterval(card, now),
                     notifications_sent |-> card.notifications_sent + 1])
    ELSE card

(***************************************************************************)
(* MonitoringService.monitor_margins: one tick is MonitorBegin (now, the    *)
(* fetch, the lock of _process_accounts), one Process step per record of   *)
(* the fetched batch, then MonitorNotify (the lock is released, the sweep  *)
(* of _process_notifications runs, the loop sleeps).  A batch with no      *)
(* record is a failed or empty fetch.                                      *)
(***************************************************************************)
\* the lock is taken inside the loop, and so free between two records
BatchLock_PerRecord == "free"

\* async with self.card_lock: encloses the whole for loop
BatchLock == "monitor"

MonitorBegin ==
    /\ mon.pc = "sleep"
    /\ card_lock = "free"
    /\ clock >= mon.wake
    /\ is_running
    /\ mon' = [pc |-> "accounts", now |-> clock, next |-> 1, wake |-> NoTime,
                fetch |-> "ok", outcome |-> mon.outcome]
    /\ card_lock' = BatchLock
    /\ UNCHANGED << clock, cards, lp_to_card, tasks, feed, cap, is_running >>

ProcessFree ==
    /\ mon.pc = "accounts"
    /\ feed.mode = "free"
    /\ \E i \in mon.next .. Len(LPOrder) : \E margin \in Margins :
          /\ ProcessAccount(Account(LPOrder[i], margin, mon.now))
          /\ mon' = [mon EXCEPT !.next = i + 1]
    /\ card_lock' = BatchLock
    /\ UNCHANGED << clock, feed, cap, is_running >>

ProcessScripted ==
    /\ mon.pc = "accounts"
    /\ feed.mode = "replay"
    /\ feed.rest # << >>
    /\ mon.next = 1
    /\ ProcessAccount(Account(LPOrder[1], Head(feed.rest), mon.now))
    /\ feed' = [feed EXCEPT !.rest = Tail(@)]
    /\ mon' = [mon EXCEPT !.next = 2]
    /\ card_lock' = BatchLock
    /\ UNCHANGED << clock, cap, is_running >>

\* a replayed feed hands over its next record at every tick
Delivered == feed.mode = "replay" /\ feed.rest # << >> => mon.next > 1

MonitorNotify ==
    /\ mon.pc = "accounts"
    /\ Delivered
    /\ HasRoom(Cardinality({c \in CardIds : ShouldNotify(cards[c], mon.now)}))
    /\ cards' = [c \in CardIds |-> Notify(cards[c], mon.now)]
    /\ card_lock' = "free"
    /\ mon' = [pc |-> "sleep", now |-> NoTime, next |-> 1,
                wake |-> clock + MONITORING_INTERVAL, fetch |-> "ok",
                outcome |-> IF mon.fetch = "failed" THEN "feed_failure" ELSE "ok"]
    /\ UNCHANGED << clock, lp_to_card, tasks, feed, cap, is_running >>

Tick ==
    /\ clock < MaxTicks * MONITORING_INTERVAL
    /\ clock' = clock + MONITORING_INTERVAL
    /\ UNCHANGED << cards, lp_to_card, card_lock, tasks, mon, feed, cap, is_running >>

\* await asyncio.sleep(MONITORING_INTERVAL) of a loop that is on time: the
\* next tick starts exactly when the sleep ends (the premise of the cadence:
\* a tick every 60 s), for as long as the replayed feed has records
Sleep ==
    /\ mon.pc = "sleep"
    /\ clock < mon.wake
    /\ feed.mode = "replay"
    /\ feed.rest # << >>
    /\ clock' = mon.wake
    /\ UNCHANGED << cards, lp_to_card, card_lock, tasks, mon, feed, cap, is_running >>

\* fetch_lp_data fails (no authentication, an exception of the client, or
\* an answer that is not a list): it logs and returns [], and the tick goes
\* on with an empty batch
FetchFails ==
    /\ mon.pc = "accounts"
    /\ mon.next = 1
    /\ mon.fetch = "ok"
    /\ feed.mode = "free"
    /\ mon' = [mon EXCEPT !.next = Len(LPOrder) + 1, !.fetch = "failed"]
    /\ UNCHANGED << clock, cards, lp_to_card, card_lock, tasks, feed, cap, is_running >>

\* the exception ends the loop
ProcessRaises_Terminates ==
    /\ mon.pc = "accounts"
    /\ feed.mode = "free"
    /\ mon.next <= Len(LPOrder)
    /\ mon' = [pc |-> "stopped", now |-> NoTime, next |-> 1, wake |-> NoTime,
                fetch |-> "ok", outcome |-> "exception"]
    /\ card_lock' = "free"
    /\ UNCHANGED << clock, cards, lp_to_card, tasks, feed, cap, is_running >>

\* a record of the batch makes _process_accounts raise (its margin is not a
\* number, float() raises ValueError): the records before it have been
\* processed, the exception leaves the lock's block and the try, the sweep
\* is skipped, and the except branch logs and sleeps
ProcessRaises ==
    /\ mon.pc = "accounts"
    /\ feed.mode = "free"
    /\ mon.next <= Len(LPOrder)
    /\ mon' = [pc |-> "sleep", now |-> NoTime, next |-> 1,
                wake |-> clock + MONITORING_INTERVAL, fetch |-> "ok",
                outcome |-> "exception"]
    /\ card_lock' = "free"
    /\ UNCHANGED << clock, cards, lp_to_card, tasks, feed, cap, is_running >>

\* stop_monitoring
StopMonitoring ==
    /\ is_running
    /\ is_running' = FALSE
    /\ UNCHANGED << clock, cards, lp_to_card, card_lock, tasks, mon, feed, cap >>

\* while self.is_running: read when the sleep has returned
MonitorExit ==
    /\ mon.pc = "sleep"
    /\ clock >= mon.wake
    /\ ~is_running
    /\ mon' = [pc |-> "stopped", now |-> NoTime, next |-> 1, wake |-> NoTime,
                fetch |-> "ok", outcome |-> mon.outcome]
    /\ UNCHANGED << clock, cards, lp_to_card, card_lock, tasks, feed, cap, is_running >>

\* POST /start-monitoring once the previous loop has returned: the task
\* sets is_running and enters the loop, whose first tick needs no sleep
StartMonitoring ==
    /\ ~is_running
    /\ mon.pc = "stopped"
    /\ is_running' = TRUE
    /\ mon' = [pc |-> "sleep", now |-> NoTime, next |-> 1, wake |-> clock,
                fetch |-> "ok", outcome |-> "ok"]
    /\ UNCHANGED << clock, cards, lp_to_card, card_lock, tasks, feed, cap >>

(***************************************************************************)
(* MonitoringService._trigger_margin_check                                 *)
(***************************************************************************)
Report(type, response) == [type |-> type, response |-> response]

TasksAt(kind, pc) == { t \in BagToSet(tasks) : t.kind = kind /\ t.pc = pc }

\* an error result is journaled, the status is left as it is
ApplyCheck_ErrorKeepsStatus(card, response) ==
    LET reported == [card EXCEPT
                        !.reports = Append(@, Report("initial", response)),
                        !.thread_id = IF response.thread_id # NoThread
                                      THEN response.thread_id ELSE @]
    IN  IF response.status = "error"
        THEN AddHistory(reported, "system", "margin_check_failed",
                        [error |-> response.error])
        ELSE AddHistory(reported, "system", "margin_check",
                        [thread_id |-> reported.thread_id])

\* an error result is journaled but no report is appended
ApplyCheck_ErrorUnreported(card, response) ==
    IF response.status = "error"
    THEN SetStatus(AddHistory(card, "system", "margin_check_failed",
                              [error |-> response.error]),
                   AWAITING_HITL)
    ELSE AddHistory([card EXCEPT
                        !.reports = Append(@, Report("initial", response)),
                        !.thread_id = IF response.thread_id # NoThread
                                      THEN response.thread_id ELSE @],
                    "system", "margin_check", [thread_id |-> response.thread_id])

ApplyCheck(card, response) ==
    LET reported == [card EXCEPT
                        !.reports = Append(@, Report("initial", response)),
                        !.thread_id = IF response.thread_id # NoThread
                                      THEN response.thread_id ELSE @]
    IN  IF response.status = "error"
        THEN SetStatus(AddHistory(reported, "system", "margin_check_failed",
                                  [error |-> response.error]),
                       AWAITING_HITL)
        ELSE AddHistory(reported, "system", "margin_check",
                        [thread_id |-> reported.thread_id])

\* the answer of the engine arrives: second critical section
CheckComplete ==
    /\ card_lock = "free"
    /\ \E t \in TasksAt("margin_check", "call") : \E response \in Responses :
          /\ HasRoom(1)
          /\ cards' = [cards EXCEPT ![t.card] = ApplyCheck(@, response)]
          /\ tasks' = RemoveTask(tasks, t)
    /\ UNCHANGED << clock, lp_to_card, card_lock, mon, feed, cap, is_running >>

(***************************************************************************)
(* MonitoringService._trigger_margin_recheck                               *)
(***************************************************************************)
\* the lock is kept over the request to the engine
CallLock_Held == "dispatch"

\* the 'async with self.card_lock' block ends before the request is sent:
\* the lock is free while the dispatch awaits the engine and the feed
CallLock == "free"

\* first critical section: give up without a thread_id, else the card is
\* PENDING_RECHECK and the request carries card.thread_id
RecheckStart ==
    /\ card_lock = "free"
    /\ \E t \in TasksAt("margin_recheck", "start") :
          IF cards[t.card].thread_id = NoThread
          THEN /\ tasks' = RemoveTask(tasks, t)
               /\ UNCHANGED << cards, card_lock >>
          ELSE /\ cards' = [cards EXCEPT ![t.card] = SetStatus(@, PENDING_RECHECK)]
               /\ tasks' = ScheduleTask(RemoveTask(tasks, t),
                                        [t EXCEPT !.pc = "call",
                                                  !.thread_id = cards[t.card].thread_id])
               /\ card_lock' = CallLock
    /\ UNCHANGED << clock, lp_to_card, mon, feed, cap, is_running >>

\* _fetch_latest_snapshot: the LP's record of a fresh fetch, or nothing
LatestSnapshots(lp_name) ==
    { << >> } \cup { << Account(lp_name, margin, clock) >> : margin \in Margins }

Refreshed(card, latest) ==
    IF latest # << >> THEN UpdateSnapshot(card, latest[1]) ELSE card

\* the time of the last reminder is left as it was
StillPending_NoReset(card) ==
    AddHistory(SetStatus(card, AWAITING_HITL),
               "system", "recheck_pending", [margin_level |-> card.margin_level])

StillPending(card) ==
    AddHistory([SetStatus(card, AWAITING_HITL) EXCEPT !.last_notified_at = clock],
               "system", "recheck_pending", [margin_level |-> card.margin_level])

\* an error result is reported and journaled, the card is left PendingRecheck
ApplyRecheck_ErrorStaysPending(card, response, latest) ==
    LET reported == [card EXCEPT !.reports = Append(@, Report("recheck", response))]
        refreshed == Refreshed(AddHistory(reported, "system", "recheck",
                                          [thread_id |-> card.thread_id]),
                               latest)
    IN  IF response.status = "error"
        THEN AddHistory(reported, "system", "recheck_failed",
                        [error |-> response.error])
        ELSE IF IsRecovered(refreshed.margin_level)
        THEN ResolveCard(refreshed, refreshed.margin_level)
        ELSE StillPending(refreshed)

\* second critical section, the card part
ApplyRecheck(card, response, latest) ==
    LET reported == [card EXCEPT !.reports = Append(@, Report("recheck", response))]
        refreshed == Refreshed(AddHistory(reported, "system", "recheck",
                                          [thread_id |-> card.thread_id]),
                               latest)
    IN  IF response.status = "error"
        THEN SetStatus(AddHistory(reported, "system", "recheck_failed",
                                  [error |-> response.error]),
                       AWAITING_HITL)
        ELSE IF IsRecovered(refreshed.margin_level)
        THEN ResolveCard(refreshed, refreshed.margin_level)
        ELSE StillPending(refreshed)

\* second critical section, the index part
RecheckResolves(card, response, latest) ==
    /\ response.status # "error"
    /\ IsRecovered(Refreshed(card, latest).margin_level)

RecheckComplete ==
    /\ card_lock = "free"
    /\ \E t \in TasksAt("margin_recheck", "call") : \E response \in Responses :
       \E latest \in LatestSnapshots(cards[t.card].lp_name) :
          /\ HasRoom(IF response.status = "error" THEN 1 ELSE 2)
          /\ cards' = [cards EXCEPT ![t.card] = ApplyRecheck(@, response, latest)]
          /\ lp_to_card' = IF RecheckResolves(cards[t.card], response, latest)
                           THEN ResolveIndex(lp_to_card, cards[t.card].lp_name)
                           ELSE lp_to_card
          /\ tasks' = RemoveTask(tasks, t)
    /\ UNCHANGED << clock, card_lock, mon, feed, cap, is_running >>

(***************************************************************************)
(* Human operations.  A request names a card id: one of the registry, or   *)
(* one the registry has not issued.                                        *)
(***************************************************************************)
Requests == 1 .. Len(cards) + 1

HTTPException(status_code, detail) == [status_code |-> status_code, detail |-> detail]

NotFound == HTTPException("404", "Alert card not found")

BadRequest == HTTPException("400", "invalid request")

\* get_card: the card, or the exception raised
GetCard(card_id) ==
    IF card_id \in CardIds THEN cards[card_id] ELSE NotFound

\* the feedback is journaled, the status is left to the dispatch
Feedback_KeepsStatus(card) ==
    IF card.thread_id = NoThread
    THEN SetStatus(AddHistory(card, "system", "recheck_skipped", NoMetadata),
                   AWAITING_HITL)
    ELSE AddHistory(card, "human", "hitl_feedback", NoMetadata)

Feedback(card) ==
    IF card.thread_id = NoThread
    THEN SetStatus(AddHistory(card, "system", "recheck_skipped", NoMetadata),
                   AWAITING_HITL)
    ELSE SetStatus(AddHistory(card, "human", "hitl_feedback", NoMetadata),
                   PENDING_RECHECK)

\* a recheck is scheduled whether or not the card has a thread
SubmitHitlFeedbackOn_AlwaysDispatches(card_id) ==
    IF card_id \notin CardIds
    THEN UNCHANGED << cards, tasks >>
    ELSE /\ HasRoom(1)
         /\ cards' = [cards EXCEPT ![card_id] = Feedback(@)]
         /\ BagCardinality(tasks) < MaxTasks
         /\ tasks' = ScheduleTask(tasks, RecheckTask(card_id))

\* submit_hitl_feedback(card_id, ...): what it does to the registry and the
\* dispatches, then what it returns or raises
SubmitHitlFeedbackOn(card_id) ==
    IF card_id \notin CardIds
    THEN UNCHANGED << cards, tasks >>
    ELSE /\ HasRoom(1)
         /\ cards' = [cards EXCEPT ![card_id] = Feedback(@)]
         /\ IF cards[card_id].thread_id = NoThread
            THEN UNCHANGED tasks
            ELSE /\ BagCardinality(tasks) < MaxTasks
                 /\ tasks' = ScheduleTask(tasks, RecheckTask(card_id))

SubmitHitlFeedbackReturn(card_id) ==
    IF card_id \notin CardIds THEN NotFound ELSE cards'[card_id]

SubmitHitlFeedback ==
    /\ card_lock = "free"
    /\ feed.mode = "free"
    /\ \E card_id \in Requests : SubmitHitlFeedbackOn(card_id)
    /\ UNCHANGED << clock, lp_to_card, card_lock, mon, feed, cap, is_running >>

\* _resolve_ignore_until accepts a deadline strictly later than utcnow()
IgnoreDeadlines ==
    { clock + k * MONITORING_INTERVAL : k \in {1, 2} }

Ignore(card, ignore_until) ==
    AddHistory(SetStatus([card EXCEPT !.ignore_until = ignore_until], IGNORED),
               "human", "ignored", [ignore_until |-> ignore_until])

\* ignore_card(card_id, ignore_until)
IgnoreCardOn(card_id, ignore_until) ==
    IF card_id \notin CardIds
    THEN UNCHANGED cards
    ELSE /\ HasRoom(1)
         /\ cards' = [cards EXCEPT ![card_id] = Ignore(@, ignore_until)]

IgnoreCardReturn(card_id) ==
    IF card_id \notin CardIds THEN NotFound ELSE cards'[card_id]

\* What an IgnoreRequest comes to: a deadline in the future, the present
\* instant, or none at all (neither duration_minutes nor ignore_until).
IgnoreRequests == IgnoreDeadlines \cup {clock, NoTime}

\* _resolve_ignore_until returns the deadline instead of raising
Resolvable(request) == request # NoTime /\ request > clock

\* the request reaches ignore_card without being validated
IgnoreAlertCardOn_Unvalidated(card_id, request) ==
    IgnoreCardOn(card_id, request)

\* POST /cards/{card_id}/ignore: _resolve_ignore_until, then ignore_card
IgnoreAlertCardOn(card_id, request) ==
    IF ~Resolvable(request)
    THEN UNCHANGED cards
    ELSE IgnoreCardOn(card_id, request)

IgnoreAlertCardReturn(card_id, request) ==
    IF ~Resolvable(request) THEN BadRequest ELSE IgnoreCardReturn(card_id)

IgnoreCard ==
    /\ card_lock = "free"
    /\ feed.mode = "free"
    /\ \E card_id \in Requests : \E request \in IgnoreRequests :
          IgnoreAlertCardOn(card_id, request)
    /\ UNCHANGED << clock, lp_to_card, card_lock, tasks, mon, feed, cap, is_running >>

Override(card, status_enum) ==
    AddHistory(SetStatus(card, status_enum), "human", "override",
               NoMetadata)

\* the index entry survives the override
OverrideIndex_Kept(index, lp_name, status_enum) == index

\* the index entry is dropped whatever the new status is
OverrideIndex_Always(index, lp_name, status_enum) ==
    [index EXCEPT ![lp_name] = NoCard]

OverrideIndex(index, lp_name, status_enum) ==
    IF status_enum \in Terminal THEN [index EXCEPT ![lp_name] = NoCard] ELSE index

\* the status values a request can carry: those of AlertStatus and one that
\* AlertStatus(status_value) rejects
StatusValues == AlertStatus \cup {"unknown"}

\* a card overridden to a terminal status is deleted from the registry
OverrideCardOn_DeletesTerminal(card_id, status_value) ==
    IF card_id \notin CardIds \/ status_value \notin AlertStatus
    THEN UNCHANGED << cards, lp_to_card >>
    ELSE /\ HasRoom(1)
         /\ cards' = IF status_value \in Terminal
                      THEN SubSeq(cards, 1, card_id - 1)
                              \o SubSeq(cards, card_id + 1, Len(cards))
                      ELSE [cards EXCEPT ![card_id] = Override(@, status_value)]
         /\ lp_to_card' = OverrideIndex(lp_to_card, cards[card_id].lp_name, status_value)

OverrideCardOn(card_id, status_value) ==
    IF card_id \notin CardIds \/ status_value \notin AlertStatus
    THEN UNCHANGED << cards, lp_to_card >>
    ELSE /\ HasRoom(1)
         /\ cards' = [cards EXCEPT ![card_id] = Override(@, status_value)]
         /\ lp_to_card' = OverrideIndex(lp_to_card, cards[card_id].lp_name, status_value)

OverrideCardReturn(card_id, status_value) ==
    IF card_id \notin CardIds THEN NotFound
    ELSE IF status_value \notin AlertStatus THEN BadRequest
    ELSE cards'[card_id]

OverrideCard ==
    /\ card_lock = "free"
    /\ feed.mode = "free"
    /\ \E card_id \in Requests : \E status_value \in StatusValues :
          OverrideCardOn(card_id, status_value)
    /\ UNCHANGED << clock, card_lock, tasks, mon, feed, cap, is_running >>

(***************************************************************************)
(* Specifications.                                                         *)
(***************************************************************************)
Init ==
    /\ clock = 0
    /\ cards = << >>
    /\ lp_to_card = [lp \in LPs |-> NoCard]
    /\ card_lock = "free"
    /\ tasks = EmptyBag
    /\ mon = [pc |-> "sleep", now |-> NoTime, next |-> 1, wake |-> 0,
               fetch |-> "ok", outcome |-> "ok"]
    /\ feed \in {[mode |-> "free", rest |-> << >>]}
                  \cup {[mode |-> "replay", rest |-> s] : s \in Scripts}
    /\ cap = MaxHist
    /\ is_running = TRUE

Next ==
    \/ Tick
    \/ MonitorBegin
    \/ ProcessFree
    \/ ProcessScripted
    \/ MonitorNotify
    \/ CheckComplete
    \/ RecheckStart
    \/ RecheckComplete
    \/ SubmitHitlFeedback
    \/ IgnoreCard
    \/ OverrideCard

Spec == Init /\ [][Next]_vars

(***************************************************************************)
(* The cadence scenario: one LP in breach at every tick of a punctual      *)
(* loop, no operator.  Only the system writes to the history: the card's   *)
(* creation, its analysis, and at most one reminder per tick.              *)
(***************************************************************************)
CadenceFeed == [i \in 1 .. MaxCadenceTicks |-> 35]

InitCadence ==
    /\ clock = 0
    /\ cards = << >>
    /\ lp_to_card = [lp \in LPs |-> NoCard]
    /\ card_lock = "free"
    /\ tasks = EmptyBag
    /\ mon = [pc |-> "sleep", now |-> NoTime, next |-> 1, wake |-> 0,
               fetch |-> "ok", outcome |-> "ok"]
    /\ feed = [mode |-> "replay", rest |-> CadenceFeed]
    /\ cap = MaxCadenceTicks + 2
    /\ is_running = TRUE

NextCadence ==
    \/ Sleep
    \/ MonitorBegin
    \/ ProcessScripted
    \/ MonitorNotify
    \/ CheckComplete

SpecCadence == InitCadence /\ [][NextCadence]_vars

(***************************************************************************)
(* The operator's desk: the first tick found LP1 at the trigger threshold, *)
(* created its card and sent the first reminder, the initial analysis has  *)
(* returned its thread, and monitoring has been stopped.  The operator and *)
(* the dispatches act on that card.                                        *)
(***************************************************************************)
Analysed ==
    ApplyCheck(
        Notify(AddHistory(NewCard(LPOrder[1], ALERT_TRIGGER_THRESHOLD,
                                  Account(LPOrder[1], ALERT_TRIGGER_THRESHOLD, 0), 0),
                          "system", "created",
                          [margin_level |-> ALERT_TRIGGER_THRESHOLD,
                           threshold |-> ALERT_TRIGGER_THRESHOLD]),
               0),
        [status |-> "ok", thread_id |-> "t1", error |-> "none"])

InitDesk ==
    /\ clock = 0
    /\ cards = << Analysed >>
    /\ lp_to_card = [lp \in LPs |-> IF lp = LPOrder[1] THEN 1 ELSE NoCard]
    /\ card_lock = "free"
    /\ tasks = EmptyBag
    /\ mon = [pc |-> "stopped", now |-> NoTime, next |-> 1, wake |-> NoTime,
               fetch |-> "ok", outcome |-> "ok"]
    /\ feed = [mode |-> "free", rest |-> << >>]
    /\ cap = MaxDeskHist
    /\ is_running = FALSE

NextDesk ==
    \/ Tick
    \/ RecheckStart
    \/ RecheckComplete
    \/ SubmitHitlFeedback
    \/ IgnoreCard
    \/ OverrideCard

SpecDesk == InitDesk /\ [][NextDesk]_vars

\* The desk with the scheduling of asyncio: a task that is ready to run is
\* run, and the engine call of a dispatch returns (it has a timeout).
SpecDeskFair ==
    SpecDesk /\ WF_vars(RecheckStart) /\ WF_vars(RecheckComplete)

(***************************************************************************)
(* The operations statement by statement: the 'async with self.card_lock'  *)
(* block of an operation, the end of the block, and the statement after    *)
(* it.  None of these statements awaits, so nothing else runs from the     *)
(* entry of the block to the statement after it.                           *)
(***************************************************************************)
Handler(kind, card_id) ==
    [kind |-> kind, card |-> card_id, pc |-> "locked",
     margin_level |-> 0, thread_id |-> NoThread]

\* the operations that are inside their block or just after it
Midway == { t \in BagToSet(tasks) : t.pc \in {"locked", "respond"} }

\* get_card: the block looks the card up and returns it
GetCardEnters ==
    /\ card_lock = "free"
    /\ Midway = {}
    /\ BagCardinality(tasks) < MaxTasks
    /\ \E card_id \in CardIds :
          tasks' = ScheduleTask(tasks, Handler("get_card", card_id))
    /\ card_lock' = "get_card"
    /\ UNCHANGED << clock, cards, lp_to_card, mon, feed, cap, is_running >>

\* ignore_card: the block sets the deadline and the status and journals
IgnoreCardEnters ==
    /\ card_lock = "free"
    /\ Midway = {}
    /\ BagCardinality(tasks) < MaxTasks
    /\ HasRoom(1)
    /\ \E card_id \in CardIds : \E ignore_until \in IgnoreDeadlines :
          /\ cards' = [cards EXCEPT ![card_id] = Ignore(@, ignore_until)]
          /\ tasks' = ScheduleTask(tasks, Handler("ignore_card", card_id))
    /\ card_lock' = "ignore_card"
    /\ UNCHANGED << clock, lp_to_card, mon, feed, cap, is_running >>

\* _trigger_margin_recheck: the first block returns without a thread_id,
\* else it sets PENDING_RECHECK
RecheckEnters ==
    /\ card_lock = "free"
    /\ Midway = {}
    /\ \E t \in TasksAt("margin_recheck", "start") :
          IF cards[t.card].thread_id = NoThread
          THEN /\ tasks' = RemoveTask(tasks, t)
               /\ UNCHANGED << cards, card_lock >>
          ELSE /\ cards' = [cards EXCEPT ![t.card] = SetStatus(@, PENDING_RECHECK)]
               /\ tasks' = ScheduleTask(RemoveTask(tasks, t), [t EXCEPT !.pc = "locked"])
               /\ card_lock' = "margin_recheck"
    /\ UNCHANGED << clock, lp_to_card, mon, feed, cap, is_running >>

\* the end of the 'async with' block
LeavesLock ==
    /\ \E t \in BagToSet(tasks) :
          /\ t.pc = "locked"
          /\ card_lock = t.kind
          /\ tasks' = ScheduleTask(RemoveTask(tasks, t), [t EXCEPT !.pc = "respond"])
    /\ card_lock' = "free"
    /\ UNCHANGED << clock, cards, lp_to_card, mon, feed, cap, is_running >>

\* card.to_dict() in get_alert_card and at the end of ignore_card: the
\* fields of the card are read into the answer
BuildsResponse ==
    /\ \E t \in BagToSet(tasks) :
          /\ t.pc = "respond"
          /\ t.kind \in {"get_card", "ignore_card"}
          /\ tasks' = RemoveTask(tasks, t)
    /\ UNCHANGED << clock, cards, lp_to_card, card_lock, mon, feed, cap, is_running >>

\* payload = {"thread_id": card.thread_id}, then the request is sent
RecheckBuildsPayload ==
    /\ \E t \in TasksAt("margin_recheck", "respond") :
          tasks' = ScheduleTask(RemoveTask(tasks, t),
                                [t EXCEPT !.pc = "call",
                                          !.thread_id = cards[t.card].thread_id])
    /\ UNCHANGED << clock, cards, lp_to_card, card_lock, mon, feed, cap, is_running >>

\* submit_hitl_feedback and the completion of a recheck, each as a whole
SubmitHitlFeedbackAtOnce == Midway = {} /\ SubmitHitlFeedback

RecheckCompleteAtOnce == Midway = {} /\ RecheckComplete

NextAccess ==
    \/ GetCardEnters
    \/ IgnoreCardEnters
    \/ RecheckEnters
    \/ LeavesLock
    \/ BuildsResponse
    \/ RecheckBuildsPayload
    \/ SubmitHitlFeedbackAtOnce
    \/ RecheckCompleteAtOnce

SpecAccess == InitDesk /\ [][NextAccess]_vars

(***************************************************************************)
(* The monitoring loop with its failures: the fetch can fail, a record can *)
(* make the processing raise, and the service can be stopped and started   *)
(* again.  No operator acts on the cards.                                  *)
(***************************************************************************)
InitLoop ==
    /\ clock = 0
    /\ cards = << >>
    /\ lp_to_card = [lp \in LPs |-> NoCard]
    /\ card_lock = "free"
    /\ tasks = EmptyBag
    /\ mon = [pc |-> "sleep", now |-> NoTime, next |-> 1, wake |-> 0,
               fetch |-> "ok", outcome |-> "ok"]
    /\ feed = [mode |-> "free", rest |-> << >>]
    /\ cap = MaxHist
    /\ is_running = TRUE

NextLoop ==
    \/ Tick
    \/ MonitorBegin
    \/ FetchFails
    \/ ProcessFree
    \/ ProcessRaises
    \/ MonitorNotify
    \/ StopMonitoring
    \/ MonitorExit
    \/ StartMonitoring

SpecLoop == InitLoop /\ [][NextLoop]_vars

\* The loop with the passing of time and the scheduling of asyncio: the
\* clock advances, and a sleep that has ended returns to the loop.
SpecLoopFair ==
    SpecLoop /\ WF_vars(Tick) /\ WF_vars(MonitorBegin)

TypeOK ==
    /\ clock \in 0 .. (MaxTicks + MaxCadenceTicks) * MONITORING_INTERVAL
    /\ Len(cards) <= MaxCards
    /\ \A c \in CardIds : cards[c].status \in AlertStatus
    /\ card_lock \in {"free", "monitor", "get_card", "ignore_card", "margin_recheck"}
    /\ is_running \in BOOLEAN
    /\ mon.pc \in {"sleep", "accounts", "stopped"}
    /\ mon.fetch \in {"ok", "failed"}
    /\ mon.outcome \in {"ok", "feed_failure", "exception"}

(***************************************************************************)
(* Vocabulary of the properties.                                           *)
(***************************************************************************)
Last(seq) == seq[Len(seq)]

NonTerminalCards(lp_name) ==
    { c \in CardIds : cards[c].lp_name = lp_name /\ cards[c].status \notin Terminal }

\* a step of the monitoring loop that processes the record `account`
Processes(account) ==
    /\ mon.pc = "accounts"
    /\ mon'.pc = "accounts"
    /\ mon.next <= Len(LPOrder)
    /\ mon'.next > mon.next
    /\ account.LP = LPOrder[mon'.next - 1]
    /\ ProcessAccount(account)

\* the records the feed can hand to the step taken now
FeedRecords ==
    IF mon.pc # "accounts" THEN {}
    ELSE IF feed.mode = "free"
    THEN { Account(lp_name, margin, mon.now) : lp_name \in LPs, margin \in Margins }
    ELSE IF feed.rest # << >>
    THEN { Account(LPOrder[1], Head(feed.rest), mon.now) }
    ELSE {}

\* the dispatch task t completes in this step
Completes(t) ==
    /\ t.pc = "call"
    /\ BagIn(t, tasks)
    /\ tasks' = RemoveTask(tasks, t)

\* C1: in every reachable state each LP has at most one card whose status is
\* not Completed or Overridden.
C1_SingleActiveCard ==
    \A lp_name \in LPs : Cardinality(NonTerminalCards(lp_name)) <= 1

\* C2: the completion of an initial-analysis or recheck dispatch whose card
\* is by then Completed or Overridden changes nothing: status, thread_id,
\* margin_level, last_margin_snapshot, last_notified_at, reports, history and
\* the LP-to-card index are as before.
C2_TerminalCompletionNoOp ==
    [][ \A t \in BagToSet(tasks) :
           (Completes(t) /\ cards[t.card].status \in Terminal)
           => /\ cards'[t.card].status = cards[t.card].status
              /\ cards'[t.card].thread_id = cards[t.card].thread_id
              /\ cards'[t.card].margin_level = cards[t.card].margin_level
              /\ cards'[t.card].last_margin_snapshot = cards[t.card].last_margin_snapshot
              /\ cards'[t.card].last_notified_at = cards[t.card].last_notified_at
              /\ cards'[t.card].reports = cards[t.card].reports
              /\ cards'[t.card].history = cards[t.card].history
              /\ lp_to_card' = lp_to_card ]_vars

\* C3: once a card is Completed or Overridden only an override call changes
\* its status: every step that changes the status of a terminal card appends
\* the human override entry to its history.
C3_TerminalOnlyOverride ==
    [][ \A c \in CardIds :
           (cards[c].status \in Terminal /\ cards'[c].status # cards[c].status)
           => /\ Len(cards'[c].history) = Len(cards[c].history) + 1
              /\ Last(cards'[c].history).action = "override" ]_vars

\* C4: the records of one batch are processed inside a single acquisition of
\* the registry lock: from the first record to the end of the batch the
\* monitoring loop holds card_lock, and every step in between that changes
\* the registry or the dispatches is the processing of a record of the batch.
C4_BatchAtomic ==
    [][ (mon.pc = "accounts" /\ mon'.pc = "accounts")
        => /\ card_lock = "monitor"
           /\ card_lock' = "monitor"
           /\ << cards, lp_to_card, tasks >>' # << cards, lp_to_card, tasks >>
              => \E account \in FeedRecords : Processes(account) ]_vars

\* Two LPs have had their cards created in the batch being processed (their
\* first sweep has not run yet).
C4_Witness ==
    /\ mon.pc = "accounts"
    /\ card_lock = "monitor"
    /\ \E c, d \in CardIds :
          /\ cards[c].lp_name # cards[d].lp_name
          /\ cards[c].history = << Event("system", "created",
                                         [margin_level |-> 30, threshold |-> 30]) >>
          /\ Len(cards[d].history) = 1
          /\ cards[c].created_at = mon.now
          /\ cards[d].created_at = mon.now

\* the dispatches of kind `kind` in flight for card c
InFlight(bag, kind, c) ==
    { t \in BagToSet(bag) : t.kind = kind /\ t.card = c }

Created(margin_level) ==
    Event("system", "created",
          [margin_level |-> margin_level, threshold |-> ALERT_TRIGGER_THRESHOLD])

\* C5: a snapshot creates a card only when its margin is >= 30 and the LP has
\* no active card; the card created is the only one, it is AwaitingHITL, the
\* index points to it, its history is the single system 'created' entry and
\* exactly one initial-analysis dispatch is launched for it.
C5_CreationOnlyFresh ==
    [][ \A account \in FeedRecords :
           (Processes(account) /\ Len(cards') # Len(cards))
           => /\ account.margin >= 30
              /\ NonTerminalCards(account.LP) = {}
              /\ Len(cards') = Len(cards) + 1
              /\ Last(cards').lp_name = account.LP
              /\ Last(cards').status = AWAITING_HITL
              /\ lp_to_card'[account.LP] = Len(cards')
              /\ Last(cards').history = << Created(account.margin) >>
              /\ Cardinality(InFlight(tasks', "margin_check", Len(cards'))) = 1
              /\ CopiesIn(CheckTask(Len(cards'), account.margin), tasks') = 1
              /\ BagCardinality(tasks') = BagCardinality(tasks) + 1 ]_vars

Suffixes(seq) == { SubSeq(seq, i, Len(seq)) : i \in 1 .. Len(seq) }

\* C6 as first stated: a breaching snapshot for an LP whose indexed card is
\* AwaitingHITL, PendingRecheck or Ignored creates no card, sets
\* margin_level and last_margin_snapshot to the record and keeps the status.
C6_BreachKeepsStatus ==
    [][ \A account \in FeedRecords :
           LET c == lp_to_card[account.LP] IN
           ( /\ Processes(account)
             /\ account.margin >= 30
             /\ c # NoCard
             /\ cards[c].status \in {AWAITING_HITL, PENDING_RECHECK, IGNORED} )
           => /\ Len(cards') = Len(cards)
              /\ cards'[c].margin_level = account.margin
              /\ cards'[c].last_margin_snapshot = account
              /\ cards'[c].status = cards[c].status ]_vars

\* C6 amended: a breaching snapshot for an LP whose indexed card is
\* AwaitingHITL, PendingRecheck or Ignored creates no card and sets
\* margin_level and last_margin_snapshot to the record; it keeps the status,
\* except that an Ignored card whose ignore_until is unset or not later than
\* the now of the tick becomes AwaitingHITL.  Replaying 35, 36, 34 for one LP
\* leaves exactly one card after each record, with the record's margin.
C6_BreachRefreshesCard ==
    [][ \A account \in FeedRecords :
           LET c == lp_to_card[account.LP] IN
           /\ ( /\ Processes(account)
                /\ account.margin >= 30
                /\ c # NoCard
                /\ cards[c].status \in {AWAITING_HITL, PENDING_RECHECK, IGNORED} )
              => /\ Len(cards') = Len(cards)
                 /\ lp_to_card' = lp_to_card
                 /\ tasks' = tasks
                 /\ cards'[c].margin_level = account.margin
                 /\ cards'[c].last_margin_snapshot = account
                 /\ cards'[c].status =
                       IF /\ cards[c].status = IGNORED
                          /\ \/ cards[c].ignore_until = NoTime
                             \/ cards[c].ignore_until <= mon.now
                       THEN AWAITING_HITL
                       ELSE cards[c].status
           /\ ( /\ Processes(account)
                /\ feed.mode = "replay"
                /\ feed.rest \in Suffixes(Persistence) )
              => /\ Len(cards') = 1
                 /\ cards'[1].lp_name = account.LP
                 /\ cards'[1].status \notin Terminal
                 /\ cards'[1].margin_level = Head(feed.rest)
                 /\ cards'[1].last_margin_snapshot = account
                 /\ cards'[1].history[1] = Created(35) ]_vars

\* 35, 36, 34 have been replayed: one card, created at 35, now at 34.
C6_Witness ==
    /\ feed = [mode |-> "replay", rest |-> << >>]
    /\ Len(cards) = 1
    /\ cards[1].history[1] = Created(35)
    /\ cards[1].margin_level = 34
    /\ cards[1].last_margin_snapshot.margin = 34
    /\ cards[1].status = AWAITING_HITL
    /\ lp_to_card[cards[1].lp_name] = 1

InBand(margin) == 25 < margin /\ margin < 30

\* C7: a snapshot with 25 < margin < 30 creates no card and resolves none:
\* it leaves every status, the index, the dispatches and every history as
\* they are, sets margin_level and last_margin_snapshot of the LP's indexed
\* non-terminal card and changes nothing when the LP has no indexed card.
\* Replaying 28, 32, 27, 24 for one LP: no card at 28, the one card is created
\* at 32, 27 only refreshes it, 24 completes it.
C7_HysteresisBand ==
    [][ \A account \in FeedRecords :
           LET c == lp_to_card[account.LP] IN
           /\ (Processes(account) /\ InBand(account.margin))
              => /\ Len(cards') = Len(cards)
                 /\ lp_to_card' = lp_to_card
                 /\ tasks' = tasks
                 /\ \A d \in CardIds :
                       /\ cards'[d].status = cards[d].status
                       /\ cards'[d].history = cards[d].history
                       /\ d # c => cards'[d] = cards[d]
                 /\ (c # NoCard /\ cards[c].status \notin Terminal)
                    => /\ cards'[c].margin_level = account.margin
                       /\ cards'[c].last_margin_snapshot = account
                 /\ c = NoCard => cards' = cards
           /\ (Processes(account) /\ feed.mode = "replay")
              => /\ feed.rest = Hysteresis => cards' = << >>
                 /\ feed.rest = Tail(Hysteresis)
                    => /\ cards = << >>
                       /\ Len(cards') = 1
                       /\ cards'[1].history = << Created(32) >>
                 /\ feed.rest = << 27, 24 >>
                    => /\ Len(cards') = 1
                       /\ cards'[1].status = cards[1].status
                       /\ cards'[1].status \notin Terminal
                       /\ cards'[1].history = cards[1].history
                       /\ cards'[1].margin_level = 27
                       /\ lp_to_card' = lp_to_card
                 /\ feed.rest = << 24 >>
                    => /\ Len(cards') = 1
                       /\ cards[1].status \notin Terminal
                       /\ cards'[1].status = COMPLETED
                       /\ lp_to_card'[account.LP] = NoCard ]_vars

\* 28, 32, 27, 24 have been replayed: the one card, created at 32, was
\* completed at 24 with nothing but the sweeps and its analysis in between.
C7_Witness ==
    /\ feed = [mode |-> "replay", rest |-> << >>]
    /\ mon.pc = "accounts"
    /\ Len(cards) = 1
    /\ cards[1].history[1] = Created(32)
    /\ Last(cards[1].history) = Event("system", "resolved", [margin_level |-> 24])
    /\ \A i \in 1 .. Len(cards[1].history) :
          cards[1].history[i].action
              \in {"created", "notification", "margin_check", "resolved"}
    /\ cards[1].status = COMPLETED
    /\ cards[1].margin_level = 24

\* C8: a snapshot with margin <= 25 for an LP whose indexed card is
\* AwaitingHITL, PendingRecheck or Ignored sets the card to Completed, removes
\* the LP's index entry, clears ignore_until and appends exactly one system
\* 'resolved' entry to its history.
C8_RecoveryResolves ==
    [][ \A account \in FeedRecords :
           LET c == lp_to_card[account.LP] IN
           ( /\ Processes(account)
             /\ account.margin <= 25
             /\ c # NoCard
             /\ cards[c].status \in {AWAITING_HITL, PENDING_RECHECK, IGNORED} )
           => /\ cards'[c].status = COMPLETED
              /\ lp_to_card'[account.LP] = NoCard
              /\ cards'[c].ignore_until = NoTime
              /\ cards'[c].history =
                    Append(cards[c].history,
                           Event("system", "resolved",
                                 [margin_level |-> account.margin]))
              /\ Len(cards') = Len(cards) ]_vars

\* A card ignored until a deadline has just been completed by a recovered
\* snapshot of the batch being processed.
C8_Witness ==
    /\ mon.pc = "accounts"
    /\ \E c \in CardIds :
          /\ Len(cards[c].history) >= 2
          /\ cards[c].history[Len(cards[c].history) - 1].action = "ignored"
          /\ Last(cards[c].history) = Event("system", "resolved", [margin_level |-> 25])
          /\ cards[c].status = COMPLETED
          /\ cards[c].ignore_until = NoTime
          /\ cards[c].updated_at = clock
          /\ lp_to_card[cards[c].lp_name] = NoCard

C10_BreachAfterIgnore ==
    [][ \A account \in FeedRecords :
           LET c == lp_to_card[account.LP] IN
           ( /\ Processes(account)
             /\ account.margin >= 30
             /\ c # NoCard
             /\ cards[c].status = IGNORED
             /\ cards[c].ignore_until # NoTime
             /\ mon.now > cards[c].ignore_until )
           => /\ cards'[c].status = AWAITING_HITL
              /\ cards'[c].ignore_until = NoTime
              /\ cards'[c].margin_level = account.margin
              /\ cards'[c].history =
                    Append(cards[c].history,
                           Event("system", "ignore_expired",
                                 [margin_level |-> account.margin]))
              /\ Len(cards') = Len(cards)
              /\ lp_to_card' = lp_to_card ]_vars

\* In the batch being processed, a breaching record has ended an ignore
\* whose deadline lies before the now of the tick.
C10_Witness ==
    /\ mon.pc = "accounts"
    /\ \E c \in CardIds :
          /\ Len(cards[c].history) >= 2
          /\ cards[c].history[Len(cards[c].history) - 1].action = "ignored"
          /\ cards[c].history[Len(cards[c].history) - 1].metadata.ignore_until < mon.now
          /\ Last(cards[c].history) = Event("system", "ignore_expired",
                                            [margin_level |-> 30])
          /\ cards[c].last_margin_snapshot = Account(cards[c].lp_name, 30, mon.now)
          /\ cards[c].status = AWAITING_HITL
          /\ cards[c].ignore_until = NoTime

\* C11: while a card is Ignored with ignore_until later than the now of the
\* tick, a breaching snapshot (margin >= 30) for its LP changes margin_level
\* and last_margin_snapshot of that card and nothing else: status,
\* ignore_until and history are kept, no card is created, no dispatch is
\* launched, the index and the other cards are as before.
C11_IgnoredBreachFrame ==
    [][ \A account \in FeedRecords :
           LET c == lp_to_card[account.LP] IN
           ( /\ Processes(account)
             /\ account.margin >= 30
             /\ c # NoCard
             /\ cards[c].status = IGNORED
             /\ cards[c].ignore_until # NoTime
             /\ cards[c].ignore_until > mon.now )
           => /\ cards' = [cards EXCEPT
                              ![c] = [@ EXCEPT !.margin_level = account.margin,
                                               !.last_margin_snapshot = account]]
              /\ cards'[c].status = IGNORED
              /\ cards'[c].ignore_until = cards[c].ignore_until
              /\ cards'[c].history = cards[c].history
              /\ Len(cards') = Len(cards)
              /\ lp_to_card' = lp_to_card
              /\ tasks' = tasks ]_vars

\* In the batch being processed a breaching record has refreshed a card that
\* was ignored before the tick, until a deadline after it.
C11_Witness ==
    /\ mon.pc = "accounts"
    /\ \E c \in CardIds :
          /\ cards[c].status = IGNORED
          /\ cards[c].ignore_until > mon.now
          /\ Last(cards[c].history).action = "ignored"
          /\ cards[c].created_at < mon.now
          /\ cards[c].updated_at < mon.now
          /\ cards[c].margin_level = 30
          /\ cards[c].last_margin_snapshot = Account(cards[c].lp_name, 30, mon.now)
          /\ lp_to_card[cards[c].lp_name] = c

\* the step taken now is the notification sweep of the tick
Sweeps == mon.pc = "accounts" /\ mon'.pc = "sleep"

Reminder(card, now) ==
    Event("system", "notification",
          [notification_interval |-> NotificationInterval(card, now),
           notifications_sent |-> card.notifications_sent + 1])

\* C12: the notification sweep fires a reminder only for cards that are
\* AwaitingHITL with ignore_until unset or not later than the now of the
\* tick; a card in any other status, or with ignore_until > now, keeps its
\* last_notified_at, notifications_sent and history through the sweep.
C12_SweepOnlyAwaiting ==
    [][ Sweeps =>
        \A c \in CardIds :
           LET eligible == /\ cards[c].status = AWAITING_HITL
                           /\ \/ cards[c].ignore_until = NoTime
                              \/ cards[c].ignore_until <= mon.now
           IN  /\ ~eligible
                  => /\ cards'[c].last_notified_at = cards[c].last_notified_at
                     /\ cards'[c].notifications_sent = cards[c].notifications_sent
                     /\ cards'[c].history = cards[c].history
                     /\ cards'[c] = cards[c]
               /\ cards'[c] # cards[c]
                  => /\ eligible
                     /\ cards'[c].last_notified_at = mon.now
                     /\ cards'[c].notifications_sent = cards[c].notifications_sent + 1
                     /\ cards'[c].history =
                           Append(cards[c].history, Reminder(cards[c], mon.now))
                     /\ cards'[c].status = AWAITING_HITL ]_vars

\* The sweep of the tick at the present time has passed over a card that was
\* AwaitingHITL and due for a reminder, but ignored until later: the batch of
\* the tick refreshed it, no reminder was recorded.
C12_Witness ==
    /\ mon.pc = "sleep"
    /\ mon.wake = clock + MONITORING_INTERVAL
    /\ \E c \in CardIds :
          /\ cards[c].status = AWAITING_HITL
          /\ cards[c].ignore_until > clock
          /\ cards[c].updated_at < clock
          /\ cards[c].last_margin_snapshot.fetched = clock
          /\ cards[c].last_notified_at + NOTIFICATION_INITIAL_FREQUENCY <= clock
          /\ cards[c].notifications_sent = 1

\* the sweep taken now records a reminder for card c
Fires(c) ==
    /\ Sweeps
    /\ c \in CardIds
    /\ cards'[c].notifications_sent = cards[c].notifications_sent + 1
    /\ cards'[c].last_notified_at = mon.now

DensePhase == { k * NOTIFICATION_INITIAL_FREQUENCY : k \in 1 .. 5 }

\* C13 as first stated: with a tick every 60 s, the card created at t=0 that
\* stays AwaitingHITL and un-ignored fires its reminders at t = 60, 120, 180,
\* 240, 300, and after that each reminder comes 900 s after the previous one.
C13_CadenceFrom60 ==
    [][ (Sweeps /\ Len(cards) = 1 /\ cards[1].created_at = 0)
        => ( Fires(1) <=>
                \/ mon.now \in DensePhase
                \/ /\ mon.now > NOTIFICATION_INITIAL_WINDOW
                   /\ mon.now = cards[1].last_notified_at
                                   + NOTIFICATION_COOLDOWN_FREQUENCY ) ]_vars

\* C13 amended: the card created at t=0 fires its first reminder at t=0, in
\* the sweep of the tick that creates it, then at 60, 120, 180, 240, 300, and
\* after that each reminder comes 900 s after the previous one (1200, 2100);
\* the card stays AwaitingHITL and un-ignored throughout.
C13_CadenceFromCreation ==
    [][ (Sweeps /\ Len(cards) = 1 /\ cards[1].created_at = 0)
        => /\ cards[1].status = AWAITING_HITL
           /\ cards[1].ignore_until = NoTime
           /\ Fires(1) <=>
                 \/ mon.now \in {0} \cup DensePhase
                 \/ /\ mon.now > NOTIFICATION_INITIAL_WINDOW
                    /\ mon.now = cards[1].last_notified_at
                                    + NOTIFICATION_COOLDOWN_FREQUENCY
           /\ Fires(1)
              => mon.now \in {0} \cup DensePhase \cup {1200, 2100, 3000}
           /\ ~Fires(1) => cards'[1] = cards[1] ]_vars

\* The eighth reminder has been recorded at t = 2100, 900 s after the seventh.
C13_Witness ==
    /\ Len(cards) = 1
    /\ cards[1].created_at = 0
    /\ cards[1].status = AWAITING_HITL
    /\ clock = 2100
    /\ cards[1].last_notified_at = 2100
    /\ cards[1].notifications_sent = 8
    /\ Last(cards[1].history) =
          Event("system", "notification",
                [notification_interval |-> NOTIFICATION_COOLDOWN_FREQUENCY,
                 notifications_sent |-> 8])

\* C14: when an initial-analysis dispatch completes for a card that is not
\* Completed or Overridden, exactly one report of type initial is appended;
\* on an error result the card is AwaitingHITL afterwards and one system
\* failure entry is appended to its history; otherwise the thread_id of the
\* result is stored on the card and one system success entry is appended.
C14_InitialCompletion ==
    [][ \A t \in BagToSet(tasks) :
           ( /\ t.kind = "margin_check"
             /\ Completes(t)
             /\ cards[t.card].status \notin Terminal )
           => \E response \in Responses :
                 /\ cards'[t.card].reports =
                       Append(cards[t.card].reports, Report("initial", response))
                 /\ IF response.status = "error"
                    THEN /\ cards'[t.card].status = AWAITING_HITL
                         /\ cards'[t.card].history =
                               Append(cards[t.card].history,
                                      Event("system", "margin_check_failed",
                                            [error |-> response.error]))
                    ELSE /\ cards'[t.card].thread_id = response.thread_id
                         /\ cards'[t.card].thread_id # NoThread
                         /\ cards'[t.card].status = cards[t.card].status
                         /\ cards'[t.card].history =
                               Append(cards[t.card].history,
                                      Event("system", "margin_check",
                                            [thread_id |-> response.thread_id]))
                 /\ \A d \in CardIds : d # t.card => cards'[d] = cards[d]
                 /\ Len(cards') = Len(cards) ]_vars

\* The initial analysis of a card that had been ignored meanwhile has failed:
\* the report is there, the failure is journaled after the ignore, and the
\* card is AwaitingHITL.
C14_Witness ==
    \E c \in CardIds :
       /\ Len(cards[c].reports) = 1
       /\ cards[c].reports[1].type = "initial"
       /\ cards[c].reports[1].response.status = "error"
       /\ Len(cards[c].history) >= 2
       /\ cards[c].history[Len(cards[c].history) - 1].action = "ignored"
       /\ Last(cards[c].history).action = "margin_check_failed"
       /\ cards[c].status = AWAITING_HITL
       /\ InFlight(tasks, "margin_check", c) = {}

\* C15: when a recheck dispatch completes for a card in PendingRecheck,
\* exactly one report of type recheck is appended; on an error result the
\* card is AwaitingHITL again with a failure entry; on success with a freshly
\* fetched margin <= 25 the card becomes Completed and its LP leaves the
\* index; on success with a freshly fetched margin > 25 the card becomes
\* AwaitingHITL, last_notified_at is the time of the completion and a
\* 'still pending' entry is appended.
C15_RecheckCompletion ==
    [][ \A t \in BagToSet(tasks) :
           LET card == cards[t.card] IN
           ( /\ t.kind = "margin_recheck"
             /\ Completes(t)
             /\ card.status = PENDING_RECHECK )
           => /\ \E response \in Responses :
                 \E latest \in LatestSnapshots(card.lp_name) :
                    cards'[t.card] = ApplyRecheck(card, response, latest)
              /\ \A response \in Responses :
                 \A latest \in LatestSnapshots(card.lp_name) :
                    cards'[t.card] = ApplyRecheck(card, response, latest)
                    => /\ cards'[t.card].reports =
                             Append(card.reports, Report("recheck", response))
                       /\ response.status = "error"
                          => /\ cards'[t.card].status = AWAITING_HITL
                             /\ cards'[t.card].history =
                                   Append(card.history,
                                          Event("system", "recheck_failed",
                                                [error |-> response.error]))
                             /\ lp_to_card' = lp_to_card
                       /\ (response.status # "error" /\ latest # << >>
                             /\ latest[1].margin <= 25)
                          => /\ cards'[t.card].status = COMPLETED
                             /\ lp_to_card'[card.lp_name] = NoCard
                       /\ (response.status # "error" /\ latest # << >>
                             /\ latest[1].margin > 25)
                          => /\ cards'[t.card].status = AWAITING_HITL
                             /\ cards'[t.card].last_notified_at = clock
                             /\ cards'[t.card].margin_level = latest[1].margin
                             /\ cards'[t.card].history =
                                   card.history
                                   \o << Event("system", "recheck",
                                               [thread_id |-> card.thread_id]),
                                         Event("system", "recheck_pending",
                                               [margin_level |-> latest[1].margin]) >>
                             /\ lp_to_card' = lp_to_card ]_vars

\* A recheck has come back with a fresh margin of 27: the card is
\* AwaitingHITL, its last reminder time is the time of the completion, later
\* than its last real reminder, and 'still pending' is journaled.
C15_Witness ==
    /\ clock > 0
    /\ Len(cards) = 1
    /\ cards[1].status = AWAITING_HITL
    /\ cards[1].last_notified_at = clock
    /\ cards[1].notifications_sent = 1
    /\ cards[1].margin_level = 27
    /\ cards[1].last_margin_snapshot = Account(cards[1].lp_name, 27, clock)
    /\ Len(cards[1].reports) = 2
    /\ cards[1].reports[2] =
          Report("recheck", [status |-> "ok", thread_id |-> "t1", error |-> "none"])
    /\ Last(cards[1].history) =
          Event("system", "recheck_pending", [margin_level |-> 27])
    /\ lp_to_card[cards[1].lp_name] = 1
    /\ tasks = EmptyBag

Pending(c) == c \in CardIds /\ cards[c].status = PENDING_RECHECK

\* the history of the run has no room left: the run of the model ends here
JournalFull == ~HasRoom(1)

SubmitsFeedback(card_id) ==
    /\ card_lock = "free"
    /\ feed.mode = "free"
    /\ SubmitHitlFeedbackOn(card_id)
    /\ UNCHANGED << clock, lp_to_card, card_lock, mon, feed, cap, is_running >>

\* the recheck dispatches whose request to the engine leaves in this step
CallsEngine ==
    { t \in BagToSet(tasks') :
         /\ t.kind = "margin_recheck"
         /\ t.pc = "call"
         /\ CopiesIn(t, tasks') > CopiesIn(t, tasks) }

\* C17: feedback on an AwaitingHITL card whose thread_id is set moves the
\* card to PendingRecheck and launches exactly one recheck dispatch, which
\* has not called the engine yet; when a recheck dispatch calls the engine
\* the card is PendingRecheck and the request carries the card's stored
\* thread_id.
C17_FeedbackThenRecheck ==
    [][ /\ \A card_id \in CardIds :
              ( /\ SubmitsFeedback(card_id)
                /\ cards[card_id].status = AWAITING_HITL
                /\ cards[card_id].thread_id # NoThread )
              => /\ cards'[card_id].status = PENDING_RECHECK
                 /\ cards'[card_id].thread_id = cards[card_id].thread_id
                 /\ tasks' = ScheduleTask(tasks, RecheckTask(card_id))
                 /\ BagCardinality(tasks') = BagCardinality(tasks) + 1
                 /\ RecheckTask(card_id).pc = "start"
                 /\ CallsEngine = {}
        /\ \A t \in CallsEngine :
              /\ cards[t.card].thread_id # NoThread
              /\ t.thread_id = cards[t.card].thread_id
              /\ cards'[t.card].status = PENDING_RECHECK
              /\ cards'[t.card].reports = cards[t.card].reports
              /\ BagCardinality(tasks') = BagCardinality(tasks) ]_vars

\* The recheck launched by a feedback is calling the engine with the thread
\* the initial analysis returned; the card is PendingRecheck.
C17_Witness ==
    \E c \in CardIds :
       /\ cards[c].status = PENDING_RECHECK
       /\ cards[c].thread_id = "t1"
       /\ Last(cards[c].history) = Event("human", "hitl_feedback", NoMetadata)
       /\ Len(cards[c].reports) = 1
       /\ tasks = SetToBag({ [RecheckTask(c) EXCEPT !.pc = "call",
                                                     !.thread_id = "t1"] })

\* C18: feedback on an AwaitingHITL card whose thread_id is unset is not an
\* error: the call returns the card, appends one system 'recheck skipped'
\* entry to its history, leaves the status AwaitingHITL and launches no
\* recheck dispatch.
C18_FeedbackWithoutThread ==
    [][ \A card_id \in CardIds :
           ( /\ SubmitsFeedback(card_id)
             /\ cards[card_id].status = AWAITING_HITL
             /\ cards[card_id].thread_id = NoThread )
           => /\ SubmitHitlFeedbackReturn(card_id) # NotFound
              /\ SubmitHitlFeedbackReturn(card_id) = cards'[card_id]
              /\ cards'[card_id] =
                    [cards[card_id] EXCEPT
                        !.history = Append(@, Event("system", "recheck_skipped",
                                                    NoMetadata)),
                        !.updated_at = clock]
              /\ cards'[card_id].status = AWAITING_HITL
              /\ tasks' = tasks
              /\ InFlight(tasks', "margin_recheck", card_id)
                    = InFlight(tasks, "margin_recheck", card_id) ]_vars

\* Feedback has been given on a card whose initial analysis has not returned:
\* 'recheck skipped' is journaled, the card is AwaitingHITL without a thread
\* and no recheck is in flight.
C18_Witness ==
    \E c \in CardIds :
       /\ cards[c].status = AWAITING_HITL
       /\ cards[c].thread_id = NoThread
       /\ Last(cards[c].history) = Event("system", "recheck_skipped", NoMetadata)
       /\ cards[c].reports = << >>
       /\ InFlight(tasks, "margin_recheck", c) = {}
       /\ InFlight(tasks, "margin_check", c) # {}

\* C19: every submit_hitl_feedback call on a card id of the registry appends
\* a history entry with actor human that records the feedback.
C19_FeedbackAlwaysJournaled ==
    [][ \A card_id \in CardIds :
           SubmitsFeedback(card_id)
           => \E i \in Len(cards[card_id].history) + 1 ..
                         Len(cards'[card_id].history) :
                 /\ cards'[card_id].history[i].actor = "human"
                 /\ cards'[card_id].history[i].action = "hitl_feedback" ]_vars

\* the step taken now is the request POST /cards/{card_id}/ignore
Ignores(card_id, request) ==
    /\ card_lock = "free"
    /\ feed.mode = "free"
    /\ IgnoreAlertCardOn(card_id, request)
    /\ UNCHANGED << clock, lp_to_card, card_lock, tasks, mon, feed, cap, is_running >>

\* the step taken now is the call override_card(card_id, status_value, ...)
Overrides(card_id, status_value) ==
    /\ card_lock = "free"
    /\ feed.mode = "free"
    /\ OverrideCardOn(card_id, status_value)
    /\ UNCHANGED << clock, card_lock, tasks, mon, feed, cap, is_running >>

\* C20: get, feedback, ignore and override called with an id that is not in
\* the registry fail with the not-found error, whatever else the request
\* carries, leave every card and the LP-to-card index unchanged and launch no
\* dispatch.
C20_UnknownCardId ==
    [][ \A card_id \in Requests \ CardIds :
           /\ GetCard(card_id) = NotFound
           /\ SubmitHitlFeedbackReturn(card_id) = NotFound
           /\ \A request \in IgnoreRequests :
                 IgnoreAlertCardReturn(card_id, request) = NotFound
           /\ \A status_value \in StatusValues :
                 OverrideCardReturn(card_id, status_value) = NotFound
           /\ ( \/ SubmitsFeedback(card_id)
                \/ \E request \in IgnoreRequests : Ignores(card_id, request)
                \/ \E status_value \in StatusValues : Overrides(card_id, status_value) )
              => UNCHANGED << cards, lp_to_card, tasks >> ]_vars

\* C21: an ignore request that carries neither a duration nor a deadline, or
\* whose deadline is not strictly later than the current time, is rejected
\* as an invalid request and changes no card and no index entry; any other
\* ignore request on a card sets its status to ignored and its ignore_until
\* to the deadline and appends one human 'ignored' history entry.
C21_IgnoreValidation ==
    [][ \A card_id \in Requests : \A request \in IgnoreRequests :
          /\ ~Resolvable(request)
             => /\ IgnoreAlertCardReturn(card_id, request) = BadRequest
                /\ Ignores(card_id, request) => UNCHANGED << cards, lp_to_card, tasks >>
          /\ ( Resolvable(request) /\ card_id \in CardIds /\ Ignores(card_id, request) )
             => /\ cards'[card_id].status = IGNORED
                /\ cards'[card_id].ignore_until = request
                /\ cards'[card_id].history =
                      Append(cards[card_id].history,
                             Event("human", "ignored", [ignore_until |-> request]))
                /\ cards'[card_id].reports = cards[card_id].reports
                /\ \A c \in CardIds \ {card_id} : cards'[c] = cards[c]
                /\ IgnoreAlertCardReturn(card_id, request) = cards'[card_id] ]_vars

\* a card that took an ignore request while it was already ignored: its last
\* two entries are 'ignored', and its deadline is that of the later one
C21_Witness ==
    \E c \in CardIds :
       /\ cards[c].status = IGNORED
       /\ Len(cards[c].history) >= 2
       /\ Last(cards[c].history) = Event("human", "ignored", [ignore_until |-> cards[c].ignore_until])
       /\ cards[c].history[Len(cards[c].history) - 1].action = "ignored"
       /\ cards[c].ignore_until > clock

\* C22: override_card on a card of the registry with a value of AlertStatus
\* sets the card to that status whatever its status was (terminal included),
\* appends exactly one human 'override' history entry, and empties the index
\* entry of the card's LP exactly when the new status is completed or
\* overridden; with a value that is not one of AlertStatus it is rejected as
\* an invalid request and changes no card and no index entry.
C22_OverrideEffect ==
    [][ \A card_id \in CardIds : \A status_value \in StatusValues :
          /\ status_value \notin AlertStatus
             => /\ OverrideCardReturn(card_id, status_value) = BadRequest
                /\ Overrides(card_id, status_value)
                   => UNCHANGED << cards, lp_to_card, tasks >>
          /\ ( status_value \in AlertStatus /\ Overrides(card_id, status_value) )
             => /\ cards'[card_id] =
                      [cards[card_id] EXCEPT
                          !.status = status_value,
                          !.updated_at = clock,
                          !.history = Append(@, Event("human", "override", NoMetadata))]
                /\ \A c \in CardIds \ {card_id} : cards'[c] = cards[c]
                /\ \A lp \in LPs \ {cards[card_id].lp_name} :
                      lp_to_card'[lp] = lp_to_card[lp]
                /\ LET lp == cards[card_id].lp_name
                   IN  IF status_value \in {COMPLETED, OVERRIDDEN}
                       THEN lp_to_card'[lp] = NoCard
                       ELSE lp_to_card'[lp] = lp_to_card[lp]
                /\ OverrideCardReturn(card_id, status_value) = cards'[card_id] ]_vars

\* a resolved card that an override has put back to awaiting_hitl, its LP
\* still without an index entry
C22_Witness ==
    \E c \in CardIds :
       /\ cards[c].status = AWAITING_HITL
       /\ Len(cards[c].history) >= 2
       /\ Last(cards[c].history) = Event("human", "override", NoMetadata)
       /\ cards[c].history[Len(cards[c].history) - 1].action = "resolved"
       /\ lp_to_card[cards[c].lp_name] = NoCard

\* C23: once a card is overridden to completed or overridden its LP has no
\* index entry; the entry stays empty until a breaching snapshot
\* (margin >= 30) for that LP is processed, and that snapshot creates a
\* fresh card with a new id in awaiting_hitl, to which the index then points,
\* while every card that existed, the overridden one included, is left as it
\* was.
C23_OverrideThenBreach ==
    [][ /\ \A card_id \in CardIds : \A status_value \in {COMPLETED, OVERRIDDEN} :
              Overrides(card_id, status_value)
              => /\ cards'[card_id].status = status_value
                 /\ lp_to_card'[cards[card_id].lp_name] = NoCard
        /\ \A lp \in LPs :
              ( lp_to_card[lp] = NoCard /\ lp_to_card'[lp] # NoCard )
              => \E account \in FeedRecords :
                    account.LP = lp /\ IsBreach(account.margin) /\ Processes(account)
        /\ \A account \in FeedRecords :
              ( /\ lp_to_card[account.LP] = NoCard
                /\ IsBreach(account.margin)
                /\ Processes(account) )
              => /\ Len(cards') = Len(cards) + 1
                 /\ lp_to_card'[account.LP] = Len(cards')
                 /\ Last(cards').lp_name = account.LP
                 /\ Last(cards').status = AWAITING_HITL
                 /\ \A c \in CardIds : cards'[c] = cards[c] ]_vars

\* an LP with two cards: the first overridden to a terminal status and still
\* in it, the second created by a later breach and indexed
C23_Witness ==
    \E c \in CardIds : \E d \in CardIds :
       /\ c < d
       /\ cards[c].lp_name = cards[d].lp_name
       /\ cards[c].status \in {COMPLETED, OVERRIDDEN}
       /\ Last(cards[c].history) = Event("human", "override", NoMetadata)
       /\ cards[d].status = AWAITING_HITL
       /\ cards[d].created_at >= cards[c].updated_at
       /\ lp_to_card[cards[d].lp_name] = d

\* C24: in every reachable state a card's ignore_until is set only if its
\* status is ignored.
C24_DeadlineOnlyIgnored ==
    \A c \in CardIds :
       cards[c].ignore_until # NoTime => cards[c].status = IGNORED

\* C25: in every reachable state every card's status is one of awaiting_hitl,
\* pending_recheck, ignored, completed, overridden.
C25_FiveStatuses ==
    \A c \in CardIds :
       cards[c].status \in {AWAITING_HITL, PENDING_RECHECK, IGNORED, COMPLETED, OVERRIDDEN}

\* seq is an initial segment of longer
IsPrefix(seq, longer) ==
    /\ Len(seq) <= Len(longer)
    /\ SubSeq(longer, 1, Len(seq)) = seq

\* C26: history and reports are append-only: every step leaves each card in
\* the registry, and leaves its previous history and its previous reports as
\* prefixes of the new ones, on terminal cards as on the others.
C26_AppendOnly ==
    [][ /\ Len(cards') >= Len(cards)
        /\ \A c \in CardIds :
              /\ IsPrefix(cards[c].history, cards'[c].history)
              /\ IsPrefix(cards[c].reports, cards'[c].reports) ]_vars

\* a card resolved by the monitoring loop whose initial analysis completed
\* afterwards: the report and its entry follow the 'resolved' entry
C26_Witness ==
    \E c \in CardIds :
       /\ Len(cards[c].history) >= 2
       /\ cards[c].history[Len(cards[c].history) - 1].action = "resolved"
       /\ Last(cards[c].history).action \in {"margin_check", "margin_check_failed"}
       /\ Len(cards[c].reports) = 1

\* the step taken now is one of the human operations
HumanStep ==
    \/ \E card_id \in Requests : SubmitsFeedback(card_id)
    \/ \E card_id \in Requests : \E request \in IgnoreRequests :
          Ignores(card_id, request)
    \/ \E card_id \in Requests : \E status_value \in StatusValues :
          Overrides(card_id, status_value)

\* C27: every step that changes a card's status, and every step that creates
\* a card, appends exactly one history entry to that card; the entry's actor
\* is 'human' when the step is feedback, ignore or override, and 'system'
\* when it is a step of the monitoring loop or of a dispatch.
C27_AuditComplete ==
    [][ /\ \A c \in CardIds :
              cards'[c].status # cards[c].status
              => /\ Len(cards'[c].history) = Len(cards[c].history) + 1
                 /\ Last(cards'[c].history).actor =
                       IF HumanStep THEN "human" ELSE "system"
        /\ Len(cards') > Len(cards)
           => /\ Len(Last(cards').history) = 1
              /\ Last(cards').history[1].actor = "system" ]_vars

\* C28: when the monitoring loop has processed a record for an LP whose
\* indexed card is awaiting_hitl, pending_recheck or ignored, that card's
\* margin_level is the record's margin and its last_margin_snapshot is the
\* record, also when the record resolves the card.
C28_SnapshotIsRecord ==
    [][ \A account \in FeedRecords :
          LET c == lp_to_card[account.LP]
          IN  ( /\ c # NoCard
                /\ cards[c].status \in ActiveStatuses
                /\ Processes(account) )
              => /\ cards'[c].margin_level = account.margin
                 /\ cards'[c].last_margin_snapshot = account ]_vars

\* C29: a monitoring tick whose feed fetch fails goes on with an empty batch
\* and, up to and including its notification sweep, leaves every card (all
\* fields, last_notified_at, notifications_sent and history included) and
\* the LP-to-card index unchanged.
C29_FeedFailureFrame ==
    [][ ( mon.pc = "accounts" /\ "failed" \in {mon.fetch, mon'.fetch} )
        => /\ UNCHANGED << cards, lp_to_card >>
           /\ mon'.pc = "accounts" => mon'.next > Len(LPOrder) ]_vars

\* the step taken now ends a tick of the loop, or starts one
TickEnds == mon.pc = "accounts" /\ mon'.pc # "accounts"

TickStarts == mon.pc # "accounts" /\ mon'.pc = "accounts"

\* the last instant of the clock
Horizon == MaxTicks * MONITORING_INTERVAL

\* the loop is asleep after a tick that failed
SleepsAfterFailure ==
    /\ mon.pc = "sleep"
    /\ mon.outcome \in {"feed_failure", "exception"}

\* C30: every tick, whether it succeeded, its fetch failed or its processing
\* raised, ends in a sleep of MONITORING_INTERVAL; a tick starts only from a
\* sleep that has run its full length, which nothing shortens; the loop
\* ends only after stop_monitoring; and while monitoring is running a
\* failed tick is followed by another tick.
C30_LoopKeepsCadence ==
    /\ [][ /\ TickEnds
              => /\ mon'.pc = "sleep"
                 /\ mon'.wake = clock + MONITORING_INTERVAL
           /\ TickStarts
              => /\ mon.pc = "sleep"
                 /\ clock >= mon.wake
           /\ ( mon.pc = "sleep" /\ mon'.pc = "sleep" ) => mon'.wake = mon.wake
           /\ ( mon.pc # "stopped" /\ mon'.pc = "stopped" )
              => /\ mon.pc = "sleep"
                 /\ clock >= mon.wake
                 /\ ~is_running ]_vars
    /\ ( SleepsAfterFailure /\ is_running /\ mon.wake <= Horizon )
          ~> ( mon.pc = "accounts" \/ ~is_running )

\* a tick at work, a full interval or more after the end of a tick whose
\* processing raised, in a service that was never stopped
C30_Witness ==
    /\ mon.pc = "accounts"
    /\ mon.outcome = "exception"
    /\ mon.now >= MONITORING_INTERVAL
    /\ is_running

\* C31: no step removes a card from the registry or changes the LP or the
\* creation of a card: a card id of the registry stays in it, naming the same
\* card of the same LP, through resolution, override and every later
\* operation.
C31_CardsStay ==
    [][ /\ Len(cards') >= Len(cards)
        /\ \A c \in CardIds :
              /\ cards'[c].lp_name = cards[c].lp_name
              /\ cards'[c].created_at = cards[c].created_at ]_vars

\* a card that was resolved and then overridden: it is in the registry with
\* both entries, and its LP has no index entry
C31_Witness ==
    \E c \in CardIds :
       /\ cards[c].status = OVERRIDDEN
       /\ \E i \in 1 .. Len(cards[c].history) : cards[c].history[i].action = "resolved"
       /\ Last(cards[c].history).action = "override"
       /\ cards[c].history[1].action = "created"
       /\ lp_to_card[cards[c].lp_name] = NoCard

\* C32: in every reachable state every card has created_at <= updated_at.
C32_CreatedBeforeUpdated ==
    \A c \in CardIds : cards[c].created_at <= cards[c].updated_at

\* a card created by a tick that started at one instant and touched again at
\* a later one
C32_Witness ==
    \E c \in CardIds :
       /\ cards[c].created_at < cards[c].updated_at
       /\ Len(cards[c].history) >= 2
       /\ cards[c].created_at = cards[c].last_notified_at

\* the card may be reminded by a sweep at `now`: awaiting_hitl, and no
\* ignore deadline later than now
Eligible(card, now) ==
    /\ card.status = AWAITING_HITL
    /\ ( card.ignore_until = NoTime \/ card.ignore_until <= now )

\* C33: for a card eligible at the sweep's now, the sweep fires iff
\* last_notified_at is unset or now - last_notified_at >= I, where I is 60
\* when now - created_at <= 300 and 900 otherwise: the phase depends on
\* created_at alone.
C33_FireCondition ==
    [][ Sweeps =>
          \A c \in CardIds :
             Eligible(cards[c], mon.now)
             => LET I == IF mon.now - cards[c].created_at <= NOTIFICATION_INITIAL_WINDOW
                         THEN NOTIFICATION_INITIAL_FREQUENCY
                         ELSE NOTIFICATION_COOLDOWN_FREQUENCY
                IN  Fires(c) <=> \/ cards[c].last_notified_at = NoTime
                                 \/ mon.now - cards[c].last_notified_at >= I ]_vars

\* the sweep at t = 360 has passed: the sixth reminder, sent at 300 at the
\* end of the initial window, is still the last one although 60 s have gone
C33_Witness ==
    /\ Len(cards) = 1
    /\ cards[1].created_at = 0
    /\ mon.pc = "sleep"
    /\ mon.wake = 360 + MONITORING_INTERVAL
    /\ cards[1].status = AWAITING_HITL
    /\ cards[1].last_notified_at = NOTIFICATION_INITIAL_WINDOW
    /\ cards[1].notifications_sent = 6

\* the 'notification' entries of a card's history
Notifications(card) ==
    { i \in 1 .. Len(card.history) : card.history[i].action = "notification" }

\* C34: a sweep leaves each card as it was or fires for it once: it sets
\* last_notified_at to the sweep's now, adds exactly 1 to notifications_sent
\* and appends exactly one system 'notification' entry, changing nothing
\* else but updated_at; and in every state notifications_sent is the number
\* of 'notification' entries in the card's history.
C34_ReminderAccounting ==
    /\ [][ Sweeps =>
             \A c \in CardIds :
                \/ cards'[c] = cards[c]
                \/ /\ cards'[c].last_notified_at = mon.now
                   /\ cards'[c].notifications_sent = cards[c].notifications_sent + 1
                   /\ Len(cards'[c].history) = Len(cards[c].history) + 1
                   /\ SubSeq(cards'[c].history, 1, Len(cards[c].history)) = cards[c].history
                   /\ Last(cards'[c].history).actor = "system"
                   /\ Last(cards'[c].history).action = "notification"
                   /\ cards'[c] = [cards[c] EXCEPT
                                      !.last_notified_at = cards'[c].last_notified_at,
                                      !.notifications_sent = cards'[c].notifications_sent,
                                      !.history = cards'[c].history,
                                      !.updated_at = cards'[c].updated_at] ]_vars
    /\ [] ( \A c \in CardIds :
               cards[c].notifications_sent = Cardinality(Notifications(cards[c])) )

\* a card reminded by two sweeps, with other entries in between
C34_Witness ==
    \E c \in CardIds :
       /\ cards[c].notifications_sent = 2
       /\ Cardinality(Notifications(cards[c])) = 2
       /\ Len(cards[c].history) >= 4
       /\ Last(cards[c].history).action = "notification"
       /\ cards[c].last_notified_at > cards[c].created_at

\* the dispatches whose request to the engine, or whose fetch of the latest
\* snapshot, is in progress
Calling == { t \in BagToSet(tasks) : t.pc = "call" }

\* C35: the registry lock is never held over a call to the engine or to the
\* feed: no dispatch holds it while its call is in progress, and the loop
\* holds it only while it processes a fetched batch; so with a call in
\* progress a tick whose sleep has ended can start, and outside a batch an
\* operator's request on a card is served.
C35_NoLockOverCalls ==
    /\ card_lock \in {"free", "monitor"}
    /\ card_lock = "monitor" => mon.pc = "accounts"
    /\ Calling # {}
       => /\ ( mon.pc = "sleep" /\ clock >= mon.wake /\ is_running )
             => ENABLED MonitorBegin
          /\ ( mon.pc # "accounts" /\ feed.mode = "free" /\ HasRoom(1) )
             => \A card_id \in CardIds :
                   ENABLED Ignores(card_id, clock + MONITORING_INTERVAL)

\* a recheck whose call is in progress, with the lock free and the loop
\* about to start a tick
C35_Witness ==
    /\ \E t \in Calling : t.kind = "margin_recheck"
    /\ card_lock = "free"
    /\ mon.pc = "sleep"
    /\ clock >= mon.wake
    /\ HasRoom(1)

\* the step taken now is made by the operation t, after its block, and reads
\* the fields of its card (for the answer, or for the payload of the recheck)
ReadsCardAfterBlock(t) ==
    /\ t.pc = "respond"
    /\ BagIn(t, tasks)
    /\ CopiesIn(t, tasks') < CopiesIn(t, tasks)

\* C36: every read or write of a card's fields or of the index is made
\* while the lock is held by the operation that makes it: the blocks of the
\* operations write with the lock held, and an operation that reads the card
\* to build its answer or its recheck payload holds the lock when it does.
C36_AccessUnderLock ==
    [][ /\ \A t \in BagToSet(tasks') :
              ( t.pc = "locked" /\ ~BagIn(t, tasks) ) => card_lock' = t.kind
        /\ \A t \in BagToSet(tasks) :
              ReadsCardAfterBlock(t) => card_lock = t.kind ]_vars

\* C37: in every reachable state an index entry names a card of the
\* registry that belongs to that LP and is not terminal, and every card that
\* is not terminal is the one its LP's entry names; and the step that
\* resolves or overrides one card removes no entry that names another card.
C37_IndexConsistent ==
    /\ [] ( /\ \A lp \in LPs :
                 lp_to_card[lp] # NoCard
                 => /\ lp_to_card[lp] \in CardIds
                    /\ cards[lp_to_card[lp]].lp_name = lp
                    /\ cards[lp_to_card[lp]].status \notin Terminal
            /\ \A c \in CardIds :
                 cards[c].status \notin Terminal
                 => lp_to_card[cards[c].lp_name] = c )
    /\ [][ \A lp \in LPs :
              ( lp_to_card[lp] # NoCard /\ lp_to_card'[lp] = NoCard )
              => /\ cards[lp_to_card[lp]].status \notin Terminal
                 /\ cards'[lp_to_card[lp]].status \in Terminal ]_vars

(***************************************************************************)
(* Starting and stopping the loop.  POST /start-monitoring hands           *)
(* monitor_margins to BackgroundTasks when is_running is False, and the    *)
(* flag is set by monitor_margins itself when that task first runs; a loop *)
(* that sleeps reads the flag when its sleep has returned.  Every call of  *)
(* monitor_margins is a task of its own here (mon is "stopped": no loop    *)
(* is running when the service is constructed); the feed delivers no       *)
(* record and the registry is empty, so a tick, which nothing suspends     *)
(* before its sleep, changes the end of the sleep only.                    *)
(***************************************************************************)
MaxLoops == 3

LoopTask(pc, wake) == [kind |-> "monitor_margins", pc |-> pc, wake |-> wake]

\* the loops that have entered monitor_margins and have not returned
LiveLoops == { t \in BagToSet(tasks) : t.pc = "sleep" }

NumLiveLoops == BagCardinality([t \in LiveLoops |-> CopiesIn(t, tasks)])

\* start_monitoring
StartRequest ==
    /\ ~is_running
    /\ BagCardinality(tasks) < MaxLoops
    /\ tasks' = ScheduleTask(tasks, LoopTask("scheduled", NoTime))
    /\ UNCHANGED << clock, cards, lp_to_card, card_lock, mon, feed, cap, is_running >>

\* monitor_margins, from its first statement to the sleep of its first tick
LoopStarts ==
    /\ BagIn(LoopTask("scheduled", NoTime), tasks)
    /\ is_running' = TRUE
    /\ tasks' = ScheduleTask(RemoveTask(tasks, LoopTask("scheduled", NoTime)),
                             LoopTask("sleep", clock + MONITORING_INTERVAL))
    /\ UNCHANGED << clock, cards, lp_to_card, card_lock, mon, feed, cap >>

\* while self.is_running: the sleep has returned and the flag is set
LoopTicks ==
    /\ is_running
    /\ \E t \in LiveLoops :
          /\ clock >= t.wake
          /\ tasks' = ScheduleTask(RemoveTask(tasks, t),
                                   LoopTask("sleep", clock + MONITORING_INTERVAL))
    /\ UNCHANGED << clock, cards, lp_to_card, card_lock, mon, feed, cap, is_running >>

\* while self.is_running: the sleep has returned and the flag is cleared
LoopReturns ==
    /\ ~is_running
    /\ \E t \in LiveLoops :
          /\ clock >= t.wake
          /\ tasks' = RemoveTask(tasks, t)
    /\ UNCHANGED << clock, cards, lp_to_card, card_lock, mon, feed, cap, is_running >>

InitStart ==
    /\ clock = 0
    /\ cards = << >>
    /\ lp_to_card = [lp \in LPs |-> NoCard]
    /\ card_lock = "free"
    /\ tasks = EmptyBag
    /\ mon = [pc |-> "stopped", now |-> NoTime, next |-> 1, wake |-> NoTime,
               fetch |-> "ok", outcome |-> "ok"]
    /\ feed = [mode |-> "replay", rest |-> << >>]
    /\ cap = MaxHist
    /\ is_running = FALSE

NextStart ==
    \/ Tick
    \/ StartRequest
    \/ LoopStarts
    \/ LoopTicks
    \/ StopMonitoring
    \/ LoopReturns

SpecStart == InitStart /\ [][NextStart]_vars

\* C38: in every reachable state at most one call of monitor_margins has
\* entered its loop and not returned, whatever start and stop requests were
\* made.
C38_OneLoop == NumLiveLoops <= 1

\* C39: the step in which a dispatch (initial analysis or recheck) that was
\* in flight completes for a card whose status is ignored leaves that card's
\* status ignored and its ignore_until as it was.
C39_IgnoreSurvivesDispatch ==
    [][ \A t \in BagToSet(tasks) :
           ( /\ t.pc = "call"
             /\ tasks' = RemoveTask(tasks, t)
             /\ cards[t.card].status = IGNORED )
           => /\ cards'[t.card].status = IGNORED
              /\ cards'[t.card].ignore_until = cards[t.card].ignore_until ]_vars

(***************************************************************************)
(* The initial analysis under the scheduling of asyncio.  The loop, the    *)
(* dispatches and the human operations run as in Spec on a free feed.  A   *)
(* tick that holds the lock has no statement that suspends before the lock *)
(* is released, and a scheduled dispatch runs: its engine call returns or  *)
(* fails within MARGIN_ENDPOINT_TIMEOUT, and the lock, once free, is       *)
(* handed to it.                                                           *)
(***************************************************************************)
InitAnalysis ==
    /\ clock = 0
    /\ cards = << >>
    /\ lp_to_card = [lp \in LPs |-> NoCard]
    /\ card_lock = "free"
    /\ tasks = EmptyBag
    /\ mon = [pc |-> "sleep", now |-> NoTime, next |-> 1, wake |-> 0,
               fetch |-> "ok", outcome |-> "ok"]
    /\ feed = [mode |-> "free", rest |-> << >>]
    /\ cap = MaxHist
    /\ is_running = TRUE

NextAnalysis ==
    \/ Tick
    \/ MonitorBegin
    \/ ProcessFree
    \/ MonitorNotify
    \/ CheckComplete
    \/ RecheckStart
    \/ RecheckComplete
    \/ SubmitHitlFeedback
    \/ IgnoreCard
    \/ OverrideCard

SpecAnalysis == InitAnalysis /\ [][NextAnalysis]_vars

SpecAnalysisFair ==
    SpecAnalysis /\ WF_vars(MonitorNotify) /\ WF_vars(CheckComplete)

\* the reports of type initial of a card
InitialReports(c) ==
    { i \in 1 .. Len(cards[c].reports) : cards[c].reports[i].type = "initial" }

\* the history of the run has no room for the next entry of the dispatch,
\* or for the sweep of the tick that holds the lock: the run of the model
\* ends here
JournalBlocks ==
    \/ JournalFull
    \/ /\ mon.pc = "accounts"
       /\ ~HasRoom(Cardinality({c \in CardIds : ShouldNotify(cards[c], mon.now)}))

\* C40: a card never has more than one report of type initial, and every
\* card of the registry eventually has exactly one, whatever ticks and
\* human operations happen in between.
C40_InitialAnalysisArrives ==
    /\ [] ( \A c \in CardIds : Cardinality(InitialReports(c)) <= 1 )
    /\ \A c \in 1 .. MaxCards :
          ( c \in CardIds )
          ~> ( \/ c \in CardIds /\ Cardinality(InitialReports(c)) = 1
               \/ JournalBlocks )

\* A card that was ignored by a human while its analysis was awaited has
\* received its one initial report, with room left in the history.
C40_Witness ==
    \E c \in CardIds :
       /\ Cardinality(InitialReports(c)) = 1
       /\ \E i \in 1 .. Len(cards[c].history) - 1 :
             /\ cards[c].history[i].action = "ignored"
             /\ cards[c].history[i + 1].action \in {"margin_check", "margin_check_failed"}
       /\ InFlight(tasks, "margin_check", c) = {}
       /\ ~JournalBlocks

====
